---- MODULE Spec2Model ----
(***************************************************************************)
(* State-machine model of src/analyze.py (class PoolEntries): ingestion of *)
(* poolmon snapshot tables, synthesis of the TOTAL row, consolidation      *)
(* (digest), the read operations, tag selection and the hand-over to the   *)
(* plotting step, together with the BOM based encoding detection.          *)
(***************************************************************************)
EXTENDS Integers, Sequences, FiniteSets, TLC

VARIABLES individual_data_frames, \* self.individual_data_frames (Option of a list of tables)
          pool_entries,           \* self.pool_entries (Option of a list of rows)
          digest_called,          \* self.digest_called
          consolidated,           \* history: the body of digest() has been entered once
          last,                   \* the last call: operation, arguments, outcome
          table,                  \* argument of add_totals_row (pure-function specification)
          file                    \* argument of GetEncoding (pure-function specification)

vars == <<individual_data_frames, pool_entries, digest_called, consolidated,
          last, table, file>>

----------------------------------------------------------------------------
(* Bounds of the model *)

MaxRows == 1      \* rows buffered over all files of one pipeline (operation sequences)
MaxFiles == 2     \* files added to one pipeline
SelRows == 3      \* rows buffered before consolidation (selection specification)
MaxN == 1         \* largest n_tags asked for
MaxBytes == 4     \* longest file enumerated for GetEncoding
MaxTableRows == 2 \* rows of the tables enumerated for add_totals_row

Tags == {"A", "B"}             \* tags of the input files ("TOTAL" is never in raw input)
Times == {1, 2}                \* parsed DateTimeUTC instants
PagedVals == {0, 1}            \* values of the counter PagedDiff
NonPagedVals == {1}            \* values of the counter NonPagedDiff
TzOffset == 1                  \* DateTime (local time) = DateTimeUTC + TzOffset

----------------------------------------------------------------------------
(* Python's None and values that may be None *)

None == <<>>
Some(x) == <<x>>
IsNone(o) == o = <<>>
Val(o) == o[1]

----------------------------------------------------------------------------
(* Tables: the column order of the CSV header, a dtype per column, rows *)

Columns == <<"Tag", "DateTime", "DateTimeUTC", "PagedDiff", "NonPagedDiff">>

ColSet(cols) == {cols[i] : i \in 1..Len(cols)}

\* dtypes pandas infers for a schema-conforming file (after pd.to_datetime)
SchemaTypes ==
    [c \in ColSet(Columns) |->
        IF c = "Tag" THEN "object"
        ELSE IF c \in {"DateTime", "DateTimeUTC"} THEN "datetime64[ns]"
        ELSE "int64"]

Row(t, u, p, np) ==
    [Tag |-> t, DateTime |-> u + TzOffset, DateTimeUTC |-> u,
     PagedDiff |-> p, NonPagedDiff |-> np]

RawRows == {Row(t, u, p, np) : t \in Tags, u \in Times, p \in PagedVals, np \in NonPagedVals}

RECURSIVE SeqsUpTo(_, _)
SeqsUpTo(S, n) ==
    IF n = 0 THEN {<<>>}
    ELSE LET shorter == SeqsUpTo(S, n - 1)
         IN  shorter \cup {Append(s, x) : s \in {q \in shorter : Len(q) = n - 1}, x \in S}

\* str(dtype).startswith('int')
StartsWithInt(coltype) == coltype \in {"int8", "int16", "int32", "int64"}

\* str(dtype).startswith('datetime')
StartsWithDatetime(coltype) == coltype \in {"datetime64[ns]"}

RECURSIVE SumCol(_, _)
SumCol(rows, c) ==
    IF rows = <<>> THEN 0 ELSE rows[1][c] + SumCol(Tail(rows), c)

----------------------------------------------------------------------------
(* add_totals_row *)

\* df.loc[0] raises KeyError on a table without rows
add_totals_row_raises(df) == Len(df.rows) = 0

\* faulty variant: sums every column that is not text or a timestamp, floats included
total_row_sums_floats(df) ==
    LET first == df.rows[1]
    IN  [c \in DOMAIN first |->
            IF df.dtypes[c] \in {"int64", "float64"} THEN SumCol(df.rows, c)
            ELSE IF c = "Tag" THEN "TOTAL"
            ELSE first[c]]

\* the series built in lines 112-117: a copy of row 0, Tag overwritten, then
\* every column whose dtype starts with 'int' overwritten by the column sum
total_row_series(df) ==
    LET first == df.rows[1]
    IN  [c \in DOMAIN first |->
            IF StartsWithInt(df.dtypes[c]) THEN SumCol(df.rows, c)
            ELSE IF c = "Tag" THEN "TOTAL"
            ELSE first[c]]

\* df.append(total_row_series, ignore_index=True): a new table, df is untouched
add_totals_row(df) ==
    [df EXCEPT !.rows = Append(df.rows, total_row_series(df))]

----------------------------------------------------------------------------
(* digest *)

RECURSIVE Concat(_)
\* pd.concat(all_dfs): the rows of the tables, in list order
Concat(dfs) ==
    IF dfs = <<>> THEN <<>> ELSE dfs[1].rows \o Concat(Tail(dfs))

\* lines 148-151: the LAST column, in header order, whose dtype starts with 'datetime'
RECURSIVE date_col_name(_, _)
date_col_name(cols, dtypes) ==
    IF cols = <<>> THEN None
    ELSE IF StartsWithDatetime(dtypes[cols[Len(cols)]]) THEN Some(cols[Len(cols)])
    ELSE date_col_name(SubSeq(cols, 1, Len(cols) - 1), dtypes)

MinKey(rows, S, c) == CHOOSE k \in {rows[i][c] : i \in S} : \A j \in S : k <= rows[j][c]

\* sort_values(kind='quicksort'), the default, is not stable: of the remaining
\* rows with the least key any one may come next
TieChoices(rows, S, c) == {i \in S : rows[i][c] = MinKey(rows, S, c)}

RECURSIVE SortOrders(_, _, _)
\* the index orders sort_values(c, ascending=True) may produce for the rows in S
SortOrders(rows, S, c) ==
    IF S = {} THEN {<<>>}
    ELSE UNION {{<<i>> \o t : t \in SortOrders(rows, S \ {i}, c)} : i \in TieChoices(rows, S, c)}

\* lines 159-160
WithTotalDiff(r) ==
    [Tag |-> r.Tag, DateTime |-> r.DateTime, DateTimeUTC |-> r.DateTimeUTC,
     PagedDiff |-> r.PagedDiff, NonPagedDiff |-> r.NonPagedDiff,
     TotalDiff |-> r.PagedDiff + r.NonPagedDiff]

\* faulty variant: no guard, digest() consolidates again
digest_guard_absent(called) == FALSE

\* line 134
digest_guard(called) == called

\* line 136: the flag is set before any work is done
flag_after_entry(called) == TRUE

\* The outcomes of one call of digest() from the given state: the fields
\* afterwards, the exception raised ("" if none) and whether the body ran.
digest_outcomes(frames, pool, called) ==
    IF digest_guard(called)
    THEN {[frames |-> frames, pool |-> pool, called |-> called,
           raised |-> "digest() called again", ran |-> FALSE]}
    ELSE LET dfs == IF IsNone(frames) THEN <<>> ELSE Val(frames)
             fail(e) == [frames |-> frames, pool |-> pool,
                         called |-> flag_after_entry(called), raised |-> e, ran |-> TRUE]
         IN  IF IsNone(frames)
             THEN {fail("TypeError")}      \* line 139 iterates over None
             ELSE IF \E i \in 1..Len(dfs) : add_totals_row_raises(dfs[i])
             THEN {fail("KeyError")}
             ELSE IF dfs = <<>>
             THEN {fail("ValueError")}
             ELSE LET all_dfs == [i \in 1..Len(dfs) |-> add_totals_row(dfs[i])]
                      rows == Concat(all_dfs)
                      col == date_col_name(Columns, all_dfs[Len(all_dfs)].dtypes)
                  IN  IF IsNone(col)
                      THEN {[frames |-> None, pool |-> Some(rows), called |-> TRUE,
                             raised |-> "KeyError", ran |-> TRUE]}
                      ELSE {[frames |-> None,
                             pool |-> Some([k \in 1..Len(rows) |-> WithTotalDiff(rows[o[k]])]),
                             called |-> TRUE, raised |-> "", ran |-> TRUE]
                            : o \in SortOrders(rows, 1..Len(rows), Val(col))}

\* "if not self.digest_called: self.digest()" of get_df, get_all_tags, do_plot
digest_if_needed(frames, pool, called) ==
    IF ~called THEN digest_outcomes(frames, pool, called)
    ELSE {[frames |-> frames, pool |-> pool, called |-> called, raised |-> "", ran |-> FALSE]}

NoArgs == [by_col |-> "", n_tags |-> 0, ignore_tags |-> <<>>, timestamp_tag |-> ""]

Call(op, args, raised, ret) == [op |-> op, args |-> args, raised |-> raised, ret |-> ret]

Apply(o) ==
    /\ individual_data_frames' = o.frames
    /\ pool_entries' = o.pool
    /\ digest_called' = o.called
    /\ consolidated' = (consolidated \/ o.ran)

----------------------------------------------------------------------------
(* The operations of one pipeline instance *)

\* The tables read_csv may hand over: poolmon lists every tag once per
\* snapshot, so the rows of one file carry distinct tags
SnapshotTables ==
    {[dtypes |-> SchemaTypes, rows |-> rows] :
        rows \in {s \in SeqsUpTo(RawRows, Cardinality(Tags)) :
                    /\ Len(s) >= 1
                    /\ \A i, j \in 1..Len(s) : i # j => s[i].Tag # s[j].Tag}}

BufferedRows == Len(Concat(Val(individual_data_frames)))

\* add_csv_file: the parsed table is appended to the buffer; after a
\* successful digest the buffer is None and the append raises
add_csv_file ==
    /\ UNCHANGED <<pool_entries, digest_called, consolidated, table, file>>
    /\ IF IsNone(individual_data_frames)
       THEN /\ last' = Call("add_csv_file", NoArgs, "AttributeError", None)
            /\ UNCHANGED individual_data_frames
       ELSE \E df \in SnapshotTables :
            /\ Len(Val(individual_data_frames)) < MaxFiles
            /\ BufferedRows + Len(df.rows) <= MaxRows
            /\ individual_data_frames' = Some(Append(Val(individual_data_frames), df))
            /\ last' = Call("add_csv_file", NoArgs, "", None)

digest ==
    \E o \in digest_outcomes(individual_data_frames, pool_entries, digest_called) :
        /\ Apply(o)
        /\ last' = Call("digest", NoArgs, o.raised,
                        IF o.raised = "" THEN o.pool ELSE None)
        /\ UNCHANGED <<table, file>>

get_df ==
    \E o \in digest_if_needed(individual_data_frames, pool_entries, digest_called) :
        /\ Apply(o)
        /\ last' = Call("get_df", NoArgs, o.raised,
                        IF o.raised = "" THEN o.pool ELSE None)
        /\ UNCHANGED <<table, file>>

RECURSIVE Unique(_)
\* Series.unique(): the distinct values in order of first appearance
Unique(s) ==
    IF s = <<>> THEN <<>>
    ELSE LET u == Unique(SubSeq(s, 1, Len(s) - 1))
         IN  IF \E i \in 1..Len(u) : u[i] = s[Len(s)] THEN u ELSE Append(u, s[Len(s)])

TagColumn(rows) == [i \in 1..Len(rows) |-> rows[i].Tag]

get_all_tags ==
    \E o \in digest_if_needed(individual_data_frames, pool_entries, digest_called) :
        /\ Apply(o)
        /\ last' = IF o.raised # "" THEN Call("get_all_tags", NoArgs, o.raised, None)
                   ELSE IF IsNone(o.pool) THEN Call("get_all_tags", NoArgs, "TypeError", None)
                   ELSE Call("get_all_tags", NoArgs, "", Some(Unique(TagColumn(Val(o.pool)))))
        /\ UNCHANGED <<table, file>>

----------------------------------------------------------------------------
(* Selection *)

\* the columns of the Pool: those of the files and the derived TotalDiff
PoolColumns == ColSet(Columns) \cup {"TotalDiff"}

\* lines 219-223 and 263-267: ignore_tags.append('TOTAL'), then ~isin(ignore_tags)
Reduced(rows, ignore_tags) ==
    SelectSeq(rows, LAMBDA r : r.Tag \notin (ColSet(ignore_tags) \cup {"TOTAL"}))

GroupOf(rows, t) == SelectSeq(rows, LAMBDA r : r.Tag = t)

GroupKeys(rows) == {rows[i].Tag : i \in 1..Len(rows)}

\* faulty variant: the minimum of the column over the rows
ColMin(rows, c) ==
    CHOOSE m \in {rows[i][c] : i \in 1..Len(rows)} : \A j \in 1..Len(rows) : m <= rows[j][c]

\* groupby(['Tag']).max(): the maximum of the column over the rows of one tag
ColMax(rows, c) ==
    CHOOSE m \in {rows[i][c] : i \in 1..Len(rows)} : \A j \in 1..Len(rows) : m >= rows[j][c]

\* faulty variant: the difference of the extremes instead of last - first
get_change_range(rows, c) == ColMax(rows, c) - ColMin(rows, c)

\* lines 259-261: x.to_numpy()[[0,-1]], last - first
get_change(rows, c) == rows[Len(rows)][c] - rows[1][c]

RECURSIVE DescOrders(_, _)
\* sort_values([by_col], ascending=False) over the groups: of the remaining
\* tags any one with the greatest value may come next (the sort is not stable)
DescOrders(score, S) ==
    IF S = {} THEN {<<>>}
    ELSE UNION {{<<t>> \o rest : rest \in DescOrders(score, S \ {t})}
                : t \in {x \in S : \A y \in S : score[x] >= score[y]}}

\* .head(n_tags) for n_tags >= 0
Head_(s, n) == SubSeq(s, 1, IF n < Len(s) THEN n ELSE Len(s))

\* The outcomes of get_highest_tags / get_most_changed_tags on the given Pool:
\* the exception raised ("" if none) and the list returned
select_outcomes(pool, n_tags, by_col, ignore_tags, agg) ==
    IF IsNone(pool) THEN {[raised |-> "TypeError", ret |-> None]}
    ELSE IF by_col \notin PoolColumns THEN {[raised |-> "KeyError", ret |-> None]}
    ELSE LET reduced_df == Reduced(Val(pool), ignore_tags)
             keys == GroupKeys(reduced_df)
             score == [t \in keys |->
                          IF agg = "max" THEN ColMax(GroupOf(reduced_df, t), by_col)
                          ELSE get_change(GroupOf(reduced_df, t), by_col)]
         IN  {[raised |-> "", ret |-> Some(Head_(o, n_tags))] : o \in DescOrders(score, keys)}

highest_outcomes(pool, n_tags, by_col, ignore_tags) ==
    select_outcomes(pool, n_tags, by_col, ignore_tags, "max")

most_changed_outcomes(pool, n_tags, by_col, ignore_tags) ==
    select_outcomes(pool, n_tags, by_col, ignore_tags, "get_change")

ByCols == {"PagedDiff", "DateTimeUTC"}              \* by_col arguments tried
IgnoreLists == {<<>>, <<"A">>}                      \* ignore_tags arguments tried

SelArgs(n, c, ig) == [by_col |-> c, n_tags |-> n, ignore_tags |-> ig, timestamp_tag |-> ""]

get_highest_tags ==
    \E n \in 0..MaxN, c \in ByCols, ig \in IgnoreLists :
        \E o \in highest_outcomes(pool_entries, n, c, ig) :
            /\ last' = Call("get_highest_tags", SelArgs(n, c, ig), o.raised, o.ret)
            /\ UNCHANGED <<individual_data_frames, pool_entries, digest_called,
                           consolidated, table, file>>

get_most_changed_tags ==
    \E n \in 0..MaxN, c \in ByCols, ig \in IgnoreLists :
        \E o \in most_changed_outcomes(pool_entries, n, c, ig) :
            /\ last' = Call("get_most_changed_tags", SelArgs(n, c, ig), o.raised, o.ret)
            /\ UNCHANGED <<individual_data_frames, pool_entries, digest_called,
                           consolidated, table, file>>

----------------------------------------------------------------------------
(* Reporting *)

\* lines 317-318 and 404-405
valid_cols == {"TotalUsedBytes", "PagedDiff", "NonPagedDiff",
               "TotalDiff", "PagedUsedBytes", "NonPagedUsedBytes"}

\* lines 314 and 401
valid_timestamp_tags == {"DateTime", "DateTimeUTC"}

\* lines 326 and 339: the time column show_plot selects and pivots on
time_column(timestamp_tag) == "DateTimeUTC"

\* lines 427-436: "if t not in all_tags: all_tags.append(t)"
AllTags(include_tags, most_changed_tags, highest_tags) ==
    Unique(<<"TOTAL">> \o include_tags \o most_changed_tags \o highest_tags)

\* reduced_df.pivot(index, values, columns='Tag') raises ValueError when two
\* rows agree on the index and on the tag
PivotRaises(rows, index) ==
    \E i, j \in 1..Len(rows) :
        i # j /\ rows[i].Tag = rows[j].Tag /\ rows[i][index] = rows[j][index]

\* lines 314-341: what show_plot hands to the rendering step
show_plot_outcome(pool, tags, timestamp_tag, by_col) ==
    IF timestamp_tag \notin valid_timestamp_tags
    THEN [raised |-> "Invalid timestamp tag", ret |-> None]
    ELSE IF by_col \notin valid_cols
    THEN [raised |-> "Invalid column name", ret |-> None]
    ELSE IF IsNone(pool) THEN [raised |-> "TypeError", ret |-> None]
    ELSE IF by_col \notin PoolColumns THEN [raised |-> "KeyError", ret |-> None]
    ELSE LET reduced_df == SelectSeq(Val(pool), LAMBDA r : r.Tag \in ColSet(tags))
             index == time_column(timestamp_tag)
         IN  IF PivotRaises(reduced_df, index)
             THEN [raised |-> "ValueError", ret |-> None]
             ELSE [raised |-> "",
                   ret |-> Some([columns |-> <<"Tag", by_col, time_column(timestamp_tag)>>,
                                 index |-> index, series |-> "Tag", values |-> by_col,
                                 tags |-> tags])]

DoPlotCols == {"PagedDiff", "TotalUsedBytes", "Bogus"}   \* by_col arguments tried
DoPlotTimes == {"DateTime", "DateTimeUTC", "Bogus"}   \* timestamp_tag arguments tried

DoPlotCounts == {0, MaxN}                             \* n_most_changed, n_highest tried

PlotArgs(c, ts) == [by_col |-> c, n_tags |-> 0, ignore_tags |-> <<>>, timestamp_tag |-> ts]

\* do_plot(by_col, timestamp_tag, ignore_tags=None, include_tags=None,
\*         n_most_changed, n_highest)
do_plot ==
    \E c \in DoPlotCols, ts \in DoPlotTimes,
       n_most_changed \in DoPlotCounts, n_highest \in DoPlotCounts :
        IF ts \notin valid_timestamp_tags
        THEN /\ last' = Call("do_plot", PlotArgs(c, ts), "Invalid timestamp tag", None)
             /\ UNCHANGED <<individual_data_frames, pool_entries, digest_called,
                            consolidated, table, file>>
        ELSE IF c \notin valid_cols
        THEN /\ last' = Call("do_plot", PlotArgs(c, ts), "Invalid column name", None)
             /\ UNCHANGED <<individual_data_frames, pool_entries, digest_called,
                            consolidated, table, file>>
        ELSE \E o \in digest_if_needed(individual_data_frames, pool_entries, digest_called) :
             /\ Apply(o)
             /\ UNCHANGED <<table, file>>
             /\ IF o.raised # ""
                THEN last' = Call("do_plot", PlotArgs(c, ts), o.raised, None)
                ELSE \E mc \in (IF n_most_changed > 0
                                THEN most_changed_outcomes(o.pool, n_most_changed, c, <<>>)
                                ELSE {[raised |-> "", ret |-> Some(<<>>)]}) :
                     IF mc.raised # ""
                     THEN last' = Call("do_plot", PlotArgs(c, ts), mc.raised, None)
                     ELSE \E hi \in (IF n_highest > 0
                                     THEN highest_outcomes(o.pool, n_highest, c, <<>>)
                                     ELSE {[raised |-> "", ret |-> Some(<<>>)]}) :
                          IF hi.raised # ""
                          THEN last' = Call("do_plot", PlotArgs(c, ts), hi.raised, None)
                          ELSE LET sp == show_plot_outcome(o.pool,
                                             AllTags(<<>>, Val(mc.ret), Val(hi.ret)), ts, c)
                               IN  last' = Call("do_plot", PlotArgs(c, ts), sp.raised, sp.ret)

(* The pipeline object as constructed *)
Init ==
    /\ individual_data_frames = Some(<<>>)
    /\ pool_entries = None
    /\ digest_called = FALSE
    /\ consolidated = FALSE
    /\ last = Call("__init__", NoArgs, "", None)
    /\ table = [dtypes |-> SchemaTypes, rows |-> <<>>]
    /\ file = [bytes |-> <<>>, byteorder |-> "little", encoding |-> None]

Next ==
    \/ add_csv_file
    \/ digest
    \/ get_df
    \/ get_all_tags
    \/ get_highest_tags
    \/ get_most_changed_tags
    \/ do_plot

Spec == Init /\ [][Next]_vars

----------------------------------------------------------------------------
(* Selection on the Pools of larger buffers: the pipeline after some       *)
(* add_csv_file calls, then consolidation and the two selections           *)

RECURSIVE Buffers(_, _)
\* the buffers add_csv_file can build from at most k files with r rows in all
Buffers(k, r) ==
    IF k = 0 THEN {<<>>}
    ELSE LET shorter == Buffers(k - 1, r)
         IN  shorter \cup
             {Append(b, df) : b \in {x \in shorter : Len(x) = k - 1},
                              df \in {d \in SnapshotTables :
                                        Len(d.rows) <= r}}

InitSelect ==
    /\ \E b \in {x \in Buffers(MaxFiles, SelRows) : Len(Concat(x)) <= SelRows} :
          individual_data_frames = Some(b)
    /\ pool_entries = None
    /\ digest_called = FALSE
    /\ consolidated = FALSE
    /\ last = Call("add_csv_file", NoArgs, "", None)
    /\ table = [dtypes |-> SchemaTypes, rows |-> <<>>]
    /\ file = [bytes |-> <<>>, byteorder |-> "little", encoding |-> None]

NextSelect == digest \/ get_highest_tags \/ get_most_changed_tags

SpecSelect == InitSelect /\ [][NextSelect]_vars

----------------------------------------------------------------------------
(* add_totals_row as a function of its argument *)

CounterTypes == {"int64", "float64"}     \* dtypes read_csv infers for a counter column

TableTypes ==
    {[c \in ColSet(Columns) |->
        IF c = "PagedDiff" THEN p ELSE IF c = "NonPagedDiff" THEN np ELSE SchemaTypes[c]]
     : p \in CounterTypes, np \in CounterTypes}

TableRows == {Row(t, u, p, np) : t \in Tags, u \in Times, p \in PagedVals, np \in PagedVals}

InitTotals ==
    /\ \E ty \in TableTypes, rows \in SeqsUpTo(TableRows, MaxTableRows) :
          table = [dtypes |-> ty, rows |-> rows]
    /\ individual_data_frames = Some(<<>>)
    /\ pool_entries = None
    /\ digest_called = FALSE
    /\ consolidated = FALSE
    /\ last = Call("__init__", NoArgs, "", None)
    /\ file = [bytes |-> <<>>, byteorder |-> "little", encoding |-> None]

call_add_totals_row ==
    /\ last' = IF add_totals_row_raises(table)
               THEN Call("add_totals_row", NoArgs, "KeyError", None)
               ELSE Call("add_totals_row", NoArgs, "", Some(add_totals_row(table)))
    /\ UNCHANGED <<individual_data_frames, pool_entries, digest_called, consolidated,
                   table, file>>

NextTotals == call_add_totals_row

SpecTotals == InitTotals /\ [][NextTotals]_vars

----------------------------------------------------------------------------
(* GetEncoding *)

ReadSize == 64                            \* f.read(64)

\* the byte-order marks of Python's codecs module
BOM_UTF8 == <<239, 187, 191>>
BOM_UTF16_LE == <<255, 254>>
BOM_UTF16_BE == <<254, 255>>
BOM_UTF32_LE == <<255, 254, 0, 0>>
BOM_UTF32_BE == <<0, 0, 254, 255>>

\* codecs.BOM_UTF16 is the mark of the platform's native byte order
BOM_UTF16(byteorder) == IF byteorder = "little" THEN BOM_UTF16_LE ELSE BOM_UTF16_BE

\* lines 44-51, in the order of the source
BOMS(byteorder) ==
    << <<BOM_UTF8, "utf-8">>, <<BOM_UTF16(byteorder), "utf-16">>,
       <<BOM_UTF32_BE, "utf-32be">>, <<BOM_UTF32_LE, "utf-32le">>,
       <<BOM_UTF16_BE, "utf-16be">>, <<BOM_UTF16_LE, "utf-16le">> >>

\* bytes.startswith(bom)
StartsWith(bytes, bom) ==
    Len(bytes) >= Len(bom) /\ SubSeq(bytes, 1, Len(bom)) = bom

\* f.read(64)
Read(bytes) == SubSeq(bytes, 1, IF Len(bytes) < ReadSize THEN Len(bytes) ELSE ReadSize)

\* lines 52-56: the first entry of BOMS the bytes start with; "utf-8" when the
\* list of matches is empty and [0] raises
GetEncoding(bytes, byteorder) ==
    LET fbytes == Read(bytes)
        boms == BOMS(byteorder)
        hits == {i \in 1..Len(boms) : StartsWith(fbytes, boms[i][1])}
    IN  IF hits = {} THEN "utf-8"
        ELSE boms[CHOOSE i \in hits : \A j \in hits : i <= j][2]

ByteVals == {0, 65, 187, 191, 239, 254, 255}     \* byte values of the enumerated files

InitEnc ==
    /\ \E bytes \in SeqsUpTo(ByteVals, MaxBytes), bo \in {"little", "big"} :
          file = [bytes |-> bytes, byteorder |-> bo, encoding |-> None]
    /\ individual_data_frames = Some(<<>>)
    /\ pool_entries = None
    /\ digest_called = FALSE
    /\ consolidated = FALSE
    /\ last = Call("__init__", NoArgs, "", None)
    /\ table = [dtypes |-> SchemaTypes, rows |-> <<>>]

call_GetEncoding ==
    /\ file' = [file EXCEPT !.encoding = Some(GetEncoding(file.bytes, file.byteorder))]
    /\ last' = Call("GetEncoding", NoArgs, "", Some(GetEncoding(file.bytes, file.byteorder)))
    /\ UNCHANGED <<individual_data_frames, pool_entries, digest_called, consolidated, table>>

NextEnc == call_GetEncoding

SpecEnc == InitEnc /\ [][NextEnc]_vars

----------------------------------------------------------------------------
(* Properties *)

ReadOps == {"get_df", "get_all_tags", "get_highest_tags", "get_most_changed_tags"}
SelectOps == {"get_highest_tags", "get_most_changed_tags"}

Min2(a, b) == IF a < b THEN a ELSE b

Elems(s) == {s[i] : i \in 1..Len(s)}

\* C1: once the body of digest() has been entered on an instance (by digest()
\* itself or through get_df, get_all_tags or do_plot), every later digest()
\* call raises "digest() called again" and leaves the Pool as it was.
C1_RepeatedDigestFails ==
    [][(last'.op = "digest" /\ consolidated)
         => (last'.raised = "digest() called again" /\ pool_entries' = pool_entries)]_vars

\* a second digest() against an existing Pool has been refused
C1_Witness ==
    /\ last.op = "digest"
    /\ last.raised = "digest() called again"
    /\ ~IsNone(pool_entries)

\* files have been added and consolidation has not run
Pending == /\ ~digest_called
           /\ ~IsNone(individual_data_frames)
           /\ Val(individual_data_frames) # <<>>

\* C2: a read operation called while Pending runs consolidation first and
\* answers from the Pool; called when Digested it leaves the Pool untouched.
C2_ReadsDigestIfPending ==
    [][(last'.op \in ReadOps)
         => /\ Pending => (digest_called' /\ ~IsNone(pool_entries') /\ last'.raised = "")
            /\ digest_called => pool_entries' = pool_entries]_vars

IsIntegerTyped(coltype) == coltype = "int64"

\* C3: for a non-empty table T, add_totals_row(T) is T's rows in order followed
\* by one row with Tag "TOTAL" whose integer-typed columns hold the column sums
\* over T and whose other columns hold the values of T's first row.
C3_TotalsRow ==
    (last.op = "add_totals_row" /\ table.rows # <<>>)
        => /\ last.raised = ""
           /\ LET out == Val(last.ret).rows
                  n == Len(table.rows)
                  total == out[n + 1]
              IN  /\ Len(out) = n + 1
                  /\ SubSeq(out, 1, n) = table.rows
                  /\ total.Tag = "TOTAL"
                  /\ \A c \in ColSet(Columns) \ {"Tag"} :
                        IF IsIntegerTyped(table.dtypes[c])
                        THEN total[c] = SumCol(table.rows, c)
                        ELSE total[c] = table.rows[1][c]

\* a table of two rows with a floating-point counter whose first value is not
\* the column sum, and an integer counter, has been given its TOTAL row
C3_Witness ==
    /\ last.op = "add_totals_row"
    /\ last.raised = ""
    /\ Len(table.rows) = 2
    /\ table.dtypes["PagedDiff"] = "float64"
    /\ table.dtypes["NonPagedDiff"] = "int64"
    /\ table.rows[1].PagedDiff # SumCol(table.rows, "PagedDiff")
    /\ table.rows[1].NonPagedDiff # SumCol(table.rows, "NonPagedDiff")

RECURSIVE StableOrder(_, _, _)
\* the order a stable ascending sort gives: of equal keys the earlier row first
StableOrder(rows, S, c) ==
    IF S = {} THEN <<>>
    ELSE LET i == CHOOSE x \in S : \A y \in S :
                      \/ rows[x][c] < rows[y][c]
                      \/ (rows[x][c] = rows[y][c] /\ x <= y)
         IN  <<i>> \o StableOrder(rows, S \ {i}, c)

\* C4: after digest() the Pool holds the rows of every buffered table and one
\* TOTAL row per table, ascending by the timestamp column, rows of equal
\* timestamp in insertion order (file, then row, TOTAL row last).
C4_StableSortedPool ==
    [][(last'.op = "digest" /\ last'.raised = "")
         => LET dfs == Val(individual_data_frames)
                rows == Concat([i \in 1..Len(dfs) |->
                                  [dfs[i] EXCEPT !.rows =
                                      Append(@, [dfs[i].rows[1] EXCEPT
                                                   !.Tag = "TOTAL",
                                                   !.PagedDiff = SumCol(dfs[i].rows, "PagedDiff"),
                                                   !.NonPagedDiff = SumCol(dfs[i].rows, "NonPagedDiff")])]])
                o == StableOrder(rows, 1..Len(rows), "DateTimeUTC")
                pool == Val(pool_entries')
            IN  /\ Len(pool) = Len(rows)
                /\ \A k \in 1..Len(rows) :
                      \A c \in ColSet(Columns) : pool[k][c] = rows[o[k]][c]]_vars

\* the greatest value of column c over the rows of tag t
MaxOf(rows, t, c) ==
    CHOOSE m \in {rows[i][c] : i \in {k \in 1..Len(rows) : rows[k].Tag = t}} :
        \A j \in 1..Len(rows) : rows[j].Tag = t => rows[j][c] <= m

Eligible(rows, ignore_tags) ==
    {rows[i].Tag : i \in 1..Len(rows)} \ ({"TOTAL"} \cup Elems(ignore_tags))

\* ret lists min(n, number of eligible tags) distinct eligible tags in
\* descending order of score, and no eligible tag left out scores higher
\* than a tag listed
IsTopN(ret, n, elig, score) ==
    /\ Len(ret) = Min2(n, Cardinality(elig))
    /\ Elems(ret) \subseteq elig
    /\ \A i, j \in 1..Len(ret) : i < j => (ret[i] # ret[j] /\ score[ret[i]] >= score[ret[j]])
    /\ \A t \in elig \ Elems(ret) : \A i \in 1..Len(ret) : score[t] <= score[ret[i]]

DeltaOf(rows, t, c) ==
    LET idx == {k \in 1..Len(rows) : rows[k].Tag = t}
        first == CHOOSE k \in idx : \A l \in idx : k <= l
        final == CHOOSE k \in idx : \A l \in idx : k >= l
    IN  rows[final][c] - rows[first][c]

C7_SelectionRejects ==
    (last.op \in SelectOps
        /\ (\/ last.args.by_col \notin valid_cols
            \/ individual_data_frames = Some(<<>>)))
        => (last.raised # "" /\ IsNone(last.ret))

FamilyOf(enc) ==
    IF enc = "utf-8" THEN "utf-8"
    ELSE IF enc \in {"utf-16", "utf-16le", "utf-16be"} THEN "utf-16"
    ELSE "utf-32"

\* the byte order a decoder of the named encoding uses on these bytes: the
\* one in the name, and for plain "utf-16" the one of the mark it consumes
OrderOf(enc, bytes) ==
    IF enc \in {"utf-16le", "utf-32le"} THEN "LE"
    ELSE IF enc \in {"utf-16be", "utf-32be"} THEN "BE"
    ELSE IF enc = "utf-16" /\ StartsWith(bytes, BOM_UTF16_LE) THEN "LE"
    ELSE IF enc = "utf-16" /\ StartsWith(bytes, BOM_UTF16_BE) THEN "BE"
    ELSE "none"

\* the encoding whose mark the file starts with (the longest such mark)
MarkedAs(bytes) ==
    IF StartsWith(bytes, BOM_UTF8) THEN [family |-> "utf-8", order |-> "none"]
    ELSE IF StartsWith(bytes, BOM_UTF32_LE) THEN [family |-> "utf-32", order |-> "LE"]
    ELSE IF StartsWith(bytes, BOM_UTF32_BE) THEN [family |-> "utf-32", order |-> "BE"]
    ELSE IF StartsWith(bytes, BOM_UTF16_LE) THEN [family |-> "utf-16", order |-> "LE"]
    ELSE IF StartsWith(bytes, BOM_UTF16_BE) THEN [family |-> "utf-16", order |-> "BE"]
    ELSE [family |-> "utf-8", order |-> "none"]

\* C8: GetEncoding reports the encoding (family and byte order) whose
\* byte-order mark the file starts with, and UTF-8 for a file that starts with
\* none of the five marks.
C8_EncodingOfBOM ==
    (last.op = "GetEncoding")
        => LET enc == Val(file.encoding)
           IN  /\ FamilyOf(enc) = MarkedAs(file.bytes).family
               /\ OrderOf(enc, file.bytes) = MarkedAs(file.bytes).order

\* C9: for a valid timestamp_tag the table do_plot hands to the rendering step
\* has the columns Tag, by_col and the column named by timestamp_tag, and is
\* pivoted on that column.
C9_PlotUsesChosenTimeColumn ==
    (last.op = "do_plot" /\ last.raised = "")
        => /\ Val(last.ret).columns = <<"Tag", last.args.by_col, last.args.timestamp_tag>>
           /\ Val(last.ret).index = last.args.timestamp_tag

\* C10: the pipeline is marked digested only if a Pool exists, and get_df
\* never returns an absent Pool.
C10_DigestedImpliesPool ==
    /\ digest_called => ~IsNone(pool_entries)
    /\ (last.op = "get_df" /\ last.raised = "") => ~IsNone(last.ret)

====
